---- MODULE Spec2Model ----
(***************************************************************************)
(* A model of plotspec (src/src/main.cpp): command line and configuration  *)
(* resolution, synthesis of one curve per input source, the shared axis    *)
(* range and tick computation, composition and export of the chart.        *)
(*                                                                         *)
(* Reals are fixed-point integers.  An x value counts hundredths of the    *)
(* configured unit (XScale), a y sample counts thousandths (YScale), an    *)
(* axis bound counts tenths of the unit of the samples it is computed from *)
(* (PadScale) and a tick counts tenths of the unit of the range it is      *)
(* computed from (TickScale).  Sums, differences and comparisons are exact *)
(* on these grids; exp() is a table at a resolution of one percent.        *)
(***************************************************************************)
EXTENDS Integers, Sequences, FiniteSets, TLC

VARIABLES
    argv,            \* the command line after the program name
    fs,              \* the files that exist and the HOME variable
    config,          \* the dictionary of the imported configuration module
    pc,              \* where the run is: "main", "calc", "plot", "export", ...
    params,          \* PlotSpecParams of the run (DefaultParams until parsed)
    spectra,         \* std::vector<SpectrumData> built by calculate_multiple_spectra
    chart,           \* what was sent to the axes and the plots of the chart
    artifacts,       \* the files written by the exporters
    stdout,          \* the messages on std::cout that the claims read
    stderr,          \* the messages on std::cerr
    exit_code,       \* -1 while running, then the exit status of the process
    viewer_started,  \* whether view->GetInteractor()->Start() was called
    py,              \* [inits, finals]: calls of Py_Initialize and Py_Finalize
    fn_in,           \* argument of the function applied in SpecX/SpecAxis/SpecTicks
    fn_out           \* its result

vars == <<argv, fs, config, pc, params, spectra, chart, artifacts, stdout,
          stderr, exit_code, viewer_started, py, fn_in, fn_out>>

-----------------------------------------------------------------------------
(* Fixed-point resolutions *)

XScale == 100
YScale == 1000
PadScale == 10
TickScale == 10

Abs(n) == IF n < 0 THEN -n ELSE n

\* division rounding toward zero, as a double is rounded to the grid
TruncDiv(a, b) == IF a >= 0 THEN a \div b ELSE -((-a) \div b)

\* std::ceil(a / b) for b > 0
CeilDiv(a, b) == -((-a) \div b)

RECURSIVE SeqMin(_)
SeqMin(s) == IF Len(s) = 1 THEN s[1]
             ELSE LET m == SeqMin(Tail(s)) IN IF s[1] < m THEN s[1] ELSE m

RECURSIVE SeqMax(_)
SeqMax(s) == IF Len(s) = 1 THEN s[1]
             ELSE LET m == SeqMax(Tail(s)) IN IF s[1] > m THEN s[1] ELSE m

-----------------------------------------------------------------------------
(* Python objects of the configuration module *)

PyStr(str) == [type |-> "str", s |-> str, n |-> 0, items |-> <<>>]
PyLong(k) == [type |-> "int", s |-> "", n |-> k, items |-> <<>>]
\* a float, given in hundredths
PyFloat(c) == [type |-> "float", s |-> "", n |-> c, items |-> <<>>]
PyList(l) == [type |-> "list", s |-> "", n |-> 0, items |-> l]
\* PyDict_GetItemString found no such key
NULL == [type |-> "NULL", s |-> "", n |-> 0, items |-> <<>>]

get_python_string(obj) == IF obj.type = "str" THEN obj.s ELSE ""

get_python_double(obj) ==
    IF obj.type = "float" THEN obj.n
    ELSE IF obj.type = "int" THEN obj.n * XScale
    ELSE 0

RECURSIVE get_python_string_list_from(_, _)
get_python_string_list_from(items, i) ==
    IF i > Len(items) THEN <<>>
    ELSE LET str_val == get_python_string(items[i])
             rest == get_python_string_list_from(items, i + 1)
         IN IF str_val # "" THEN <<str_val>> \o rest ELSE rest

\* get_python_string_list, but no item is dropped
get_python_string_list_Unfiltered(obj) ==
    IF obj.type = "list"
    THEN [i \in 1..Len(obj.items) |-> get_python_string(obj.items[i])]
    ELSE <<>>

get_python_string_list(obj) ==
    IF obj.type = "list" THEN get_python_string_list_from(obj.items, 1) ELSE <<>>

-----------------------------------------------------------------------------
(* PlotSpecParams and its defaults *)

DefaultParams ==
    [mode |-> "abs", unit |-> "nm",
     x_start |-> 200 * XScale, x_end |-> 1000 * XScale, interval |-> 1 * XScale,
     user_set_interval |-> FALSE,
     input_filenames |-> <<>>, legend_names |-> <<>>,
     output_format |-> "svg", output_filename |-> "spectrum_plot",
     interactive |-> TRUE]

\* the fields of params that the module dictionary sets (lines 202-246)
ExtractConfig(d) ==
    [DefaultParams EXCEPT
       !.mode = IF d.mode.type # "NULL" THEN get_python_string(d.mode) ELSE @,
       !.unit = IF d.unit.type # "NULL" THEN get_python_string(d.unit) ELSE @,
       !.x_start = IF d.x_start.type # "NULL" THEN get_python_double(d.x_start) ELSE @,
       !.x_end = IF d.x_end.type # "NULL" THEN get_python_double(d.x_end) ELSE @,
       !.interval = IF d.interval.type # "NULL" THEN get_python_double(d.interval) ELSE @,
       !.user_set_interval = (d.interval.type # "NULL"),
       !.output_format = IF d.output_format.type # "NULL"
                         THEN get_python_string(d.output_format) ELSE @,
       !.output_filename = IF d.output_filename.type # "NULL"
                           THEN get_python_string(d.output_filename) ELSE @,
       !.legend_names = IF d.legend_names.type # "NULL"
                        THEN get_python_string_list(d.legend_names) ELSE @]

\* the default interval of the unit (lines 257-266)
DefaultInterval(p) ==
    IF p.user_set_interval THEN p
    ELSE [p EXCEPT !.interval = IF p.unit = "cm-1" THEN 100 * XScale
                                ELSE IF p.unit = "eV" THEN 1
                                ELSE 1 * XScale]

\* read_config_file, but the interpreter is not finalized when the import fails
read_config_file_LeakOnThrow(importable, py_ok, d) ==
    IF ~py_ok
    THEN [thrown |-> "Failed to initialize Python interpreter",
          params |-> DefaultParams, py |-> [inits |-> 1, finals |-> 0]]
    ELSE IF ~importable
    THEN [thrown |-> "Failed to import config file",
          params |-> DefaultParams, py |-> [inits |-> 1, finals |-> 0]]
    ELSE [thrown |-> "",
          params |-> DefaultInterval(ExtractConfig(d)),
          py |-> [inits |-> 1, finals |-> 1]]

\* read_config_file: [thrown, params, py]; py_ok: Py_IsInitialized() after
\* Py_Initialize(); importable: PyImport_ImportModule returned a module
read_config_file(importable, py_ok, d) ==
    IF ~py_ok
    THEN [thrown |-> "Failed to initialize Python interpreter",
          params |-> DefaultParams, py |-> [inits |-> 1, finals |-> 0]]
    ELSE IF ~importable
    THEN [thrown |-> "Failed to import config file",
          params |-> DefaultParams, py |-> [inits |-> 1, finals |-> 1]]
    ELSE [thrown |-> "",
          params |-> DefaultInterval(ExtractConfig(d)),
          py |-> [inits |-> 1, finals |-> 1]]

-----------------------------------------------------------------------------
(* File names, the command line and the file system *)

\* a file name: directory, stem and last extension, and in `more` a suffix
\* that was appended after an existing extension
Name(d, st, e) == [dir |-> d, stem |-> st, ext |-> e, more |-> ""]
NoFile == Name("", "", "")

ends_with(value, ending) ==
    IF value.more # "" THEN value.more = ending ELSE value.ext = ending

\* filename + ".out", filename + ".log"
Plus(filename, suffix) ==
    IF filename.ext = "" THEN [filename EXCEPT !.ext = suffix]
    ELSE [filename EXCEPT !.more = suffix]

\* std::filesystem::path(filename).stem().string()
Stem(filename) == filename.stem

OptArg(o) == [opt |-> o, path |-> "", file |-> NoFile]
ConfigArg(p) == [opt |-> "-config=", path |-> p, file |-> NoFile]
FileArg(f) == [opt |-> "", path |-> "", file |-> f]

LocalConfig == "./spectrum_config.py"
HomeConfig == "$HOME/spectrum_config.py"

\* find_config_file: [ok, path]
find_config_file(f) ==
    IF LocalConfig \in f.configs THEN [ok |-> TRUE, path |-> LocalConfig]
    ELSE IF f.home /\ HomeConfig \in f.configs THEN [ok |-> TRUE, path |-> HomeConfig]
    ELSE [ok |-> FALSE, path |-> ""]

\* ParseLoop, but -help and --help do not end the run
RECURSIVE ParseLoop_HelpIgnored(_, _, _)
ParseLoop_HelpIgnored(args, i, acc) ==
    IF i > Len(args) THEN acc
    ELSE LET arg == args[i] IN
         IF arg.opt = "-help" \/ arg.opt = "--help"
         THEN ParseLoop_HelpIgnored(args, i + 1, acc)
         ELSE IF arg.opt = "-no-interactive"
         THEN ParseLoop_HelpIgnored(args, i + 1, [acc EXCEPT !.interactive = FALSE])
         ELSE IF arg.opt = "-config="
         THEN ParseLoop_HelpIgnored(args, i + 1, [acc EXCEPT !.config_file_path = arg.path])
         ELSE ParseLoop_HelpIgnored(args, i + 1, [acc EXCEPT !.input_files = Append(@, arg.file)])

\* ParseLoop, but -no-interactive leaves interactive as it is
RECURSIVE ParseLoop_NoInteractiveIgnored(_, _, _)
ParseLoop_NoInteractiveIgnored(args, i, acc) ==
    IF i > Len(args) THEN acc
    ELSE LET arg == args[i] IN
         IF arg.opt = "-help" \/ arg.opt = "--help" THEN [acc EXCEPT !.help = TRUE]
         ELSE IF arg.opt = "-no-interactive"
         THEN ParseLoop_NoInteractiveIgnored(args, i + 1, acc)
         ELSE IF arg.opt = "-config="
         THEN ParseLoop_NoInteractiveIgnored(args, i + 1,
                                             [acc EXCEPT !.config_file_path = arg.path])
         ELSE ParseLoop_NoInteractiveIgnored(args, i + 1,
                                             [acc EXCEPT !.input_files = Append(@, arg.file)])

\* the loop over argv of parse_arguments (lines 302-316), from argument i on
RECURSIVE ParseLoop(_, _, _)
ParseLoop(args, i, acc) ==
    IF i > Len(args) THEN acc
    ELSE LET arg == args[i] IN
         IF arg.opt = "-help" \/ arg.opt = "--help" THEN [acc EXCEPT !.help = TRUE]
         ELSE IF arg.opt = "-no-interactive"
         THEN ParseLoop(args, i + 1, [acc EXCEPT !.interactive = FALSE])
         ELSE IF arg.opt = "-config="
         THEN ParseLoop(args, i + 1, [acc EXCEPT !.config_file_path = arg.path])
         ELSE ParseLoop(args, i + 1, [acc EXCEPT !.input_files = Append(@, arg.file)])

ParseStart == [help |-> FALSE, interactive |-> TRUE, config_file_path |-> "",
               input_files |-> <<>>]

\* LegendNames, but the configured names are replaced only when there are none
LegendNames_OnlyIfEmpty(legend_names, input_files) ==
    IF legend_names = <<>>
    THEN [i \in 1..Len(input_files) |-> Stem(input_files[i])]
    ELSE legend_names

\* the legend names of lines 334-341
LegendNames(legend_names, input_files) ==
    IF legend_names = <<>> \/ Len(legend_names) # Len(input_files)
    THEN [i \in 1..Len(input_files) |-> Stem(input_files[i])]
    ELSE legend_names

NoPy == [inits |-> 0, finals |-> 0]

\* parse_arguments: kind "exit" (exit() was called), "throw" or "ok"
parse_arguments(args, f, d, module_ok, py_ok) ==
    IF Len(args) = 0
    THEN [kind |-> "exit", code |-> 1, what |-> "", params |-> DefaultParams,
          py |-> NoPy, imported |-> FALSE]
    ELSE LET r == ParseLoop(args, 1, ParseStart) IN
    IF r.help
    THEN [kind |-> "exit", code |-> 0, what |-> "", params |-> DefaultParams,
          py |-> NoPy, imported |-> FALSE]
    ELSE IF r.input_files = <<>>
    THEN [kind |-> "throw", code |-> 1, what |-> "No input files provided",
          params |-> DefaultParams, py |-> NoPy, imported |-> FALSE]
    ELSE LET found == IF r.config_file_path = "" THEN find_config_file(f)
                      ELSE [ok |-> TRUE, path |-> r.config_file_path] IN
    IF ~found.ok
    THEN [kind |-> "throw", code |-> 1, what |-> "Config file not found",
          params |-> DefaultParams, py |-> NoPy, imported |-> FALSE]
    ELSE LET rc == read_config_file(found.path \in f.configs /\ module_ok, py_ok, d) IN
    IF rc.thrown # ""
    THEN [kind |-> "throw", code |-> 1, what |-> rc.thrown,
          params |-> DefaultParams, py |-> rc.py, imported |-> FALSE]
    ELSE [kind |-> "ok", code |-> -1, what |-> "",
          params |-> [rc.params EXCEPT
                        !.input_filenames = r.input_files,
                        !.interactive = r.interactive,
                        !.legend_names = LegendNames(@, r.input_files)],
          py |-> rc.py, imported |-> TRUE]

-----------------------------------------------------------------------------
(* calculate_single_spectrum *)

\* CanOpen, but the test of line 365 is missing
CanOpen_NoCheck(filename, f) == TRUE

\* whether the std::ifstream is open after lines 350-363
CanOpen(filename, f) ==
    \/ filename \in f.inputs
    \/ /\ ~ends_with(filename, ".out")
       /\ ~ends_with(filename, ".log")
       /\ \/ Plus(filename, ".out") \in f.inputs
          \/ Plus(filename, ".log") \in f.inputs

\* 1e-8 on the grid of x values: every x value is a multiple of 1/XScale, so
\* current_x <= x_end + 1e-8 exactly when current_x <= x_end + 0
Tolerance == 0

\* the loop of lines 374-378 never ends: current_x does not grow
XLoopDiverges(p) == p.interval <= 0 /\ p.x_start <= p.x_end + Tolerance

\* XLoopCondition, but with < for <=
XLoopCondition_Strict(current_x, x_end) == current_x < x_end + Tolerance

\* the condition of the loop of line 375
XLoopCondition(current_x, x_end) == current_x <= x_end + Tolerance

\* the loop of lines 374-378, from current_x on
RECURSIVE XLoop(_, _, _, _)
XLoop(current_x, x_end, interval, x_values) ==
    IF XLoopCondition(current_x, x_end)
    THEN XLoop(current_x + interval, x_end, interval, Append(x_values, current_x))
    ELSE x_values

XValues(p) == XLoop(p.x_start, p.x_end, p.interval, <<>>)

\* 100 * exp(-(q/4)^2), q = 0, 1, ..., rounded; 0 from q = 10 on
ExpTable == <<100, 94, 78, 57, 37, 21, 11, 5, 2, 1>>

\* 100 * exp(-pow(d / sigma, 2)), with d / sigma cut to quarters
Gauss(d, sigma) ==
    LET q == (4 * Abs(d)) \div sigma
    IN IF q < Len(ExpTable) THEN ExpTable[q + 1] ELSE 0

\* shift_factor = file_index * 20.0, in hundredths
ShiftStep == 20
shift_factor(file_index) == file_index * ShiftStep * XScale

\* intensity_factor = 1.0 - file_index * 0.15, in twentieths
FactorScale == 20
intensity_factor(file_index) == FactorScale - file_index * 3

\* UnitShift, but the shift of nm is used in every unit
UnitShift_Unscaled(unit, file_index) == shift_factor(file_index)

\* the shift in the unit of the x axis (lines 393, 398, 403)
UnitShift(unit, file_index) ==
    IF unit = "eV" THEN shift_factor(file_index) \div 1000
    ELSE IF unit = "cm-1" THEN shift_factor(file_index) * 100
    ELSE shift_factor(file_index)

\* Bands, but a unit that is none of nm, eV and cm-1 takes the bands of nm in
\* absorption mode
Bands_UnknownUnitAsNm(mode, unit) ==
    IF mode = "abs" THEN
        IF unit = "eV" THEN << <<15000 * YScale, 310, 15>>, <<12000 * YScale, 390, 20>>,
                               <<8000 * YScale, 440, 10>> >>
        ELSE IF unit = "cm-1" THEN << <<15000 * YScale, 2500000, 200000>>,
                                      <<12000 * YScale, 3100000, 150000>>,
                                      <<8000 * YScale, 3500000, 100000>> >>
        ELSE << <<15000 * YScale, 28000, 1500>>, <<12000 * YScale, 32000, 2000>>,
                <<8000 * YScale, 42000, 2500>>, <<5000 * YScale, 52000, 3000>> >>
    ELSE <<>>

\* the bands <<amplitude in 1/YScale, centre in 1/XScale, width in 1/XScale>>
\* of a mode and a unit; a band that the code subtracts has a negative amplitude
Bands(mode, unit) ==
    IF mode = "abs" THEN
        IF unit = "nm" THEN << <<15000 * YScale, 28000, 1500>>, <<12000 * YScale, 32000, 2000>>,
                               <<8000 * YScale, 42000, 2500>>, <<5000 * YScale, 52000, 3000>> >>
        ELSE IF unit = "eV" THEN << <<15000 * YScale, 310, 15>>, <<12000 * YScale, 390, 20>>,
                                    <<8000 * YScale, 440, 10>> >>
        ELSE IF unit = "cm-1" THEN << <<15000 * YScale, 2500000, 200000>>,
                                      <<12000 * YScale, 3100000, 150000>>,
                                      <<8000 * YScale, 3500000, 100000>> >>
        ELSE <<>>
    ELSE IF mode = "emi" THEN
        IF unit = "nm" THEN << <<900, 35000, 2000>>, <<700, 45000, 2500>>, <<500, 55000, 3000>> >>
        ELSE IF unit = "eV" THEN << <<900, 280, 15>>, <<700, 320, 20>>, <<500, 360, 10>> >>
        ELSE <<>>
    ELSE IF mode = "cd" \/ mode = "cdl" THEN
        IF unit = "nm" THEN << <<50 * YScale, 26000, 1500>>, <<-40 * YScale, 30000, 2000>>,
                               <<30 * YScale, 34000, 1800>>, <<-20 * YScale, 38000, 2500>> >>
        ELSE IF unit = "eV" THEN << <<50 * YScale, 400, 15>>, <<-40 * YScale, 350, 20>>,
                                    <<30 * YScale, 300, 18>> >>
        ELSE <<>>
    ELSE <<>>

\* intensity_factor * A * exp(-pow((x - mu - shift) / sigma, 2))
BandTerm(band, x, shift, file_index) ==
    TruncDiv(((intensity_factor(file_index) * band[1]) \div FactorScale)
               * Gauss(x - band[2] - shift, band[3]), 100)

RECURSIVE SumTerms(_, _, _, _, _)
SumTerms(bands, k, x, shift, file_index) ==
    IF k > Len(bands) THEN 0
    ELSE BandTerm(bands[k], x, shift, file_index)
           + SumTerms(bands, k + 1, x, shift, file_index)

\* one sample: the intensity of lines 387-456 at x
Intensity(mode, unit, x, file_index) ==
    SumTerms(Bands(mode, unit), 1, x, UnitShift(unit, file_index), file_index)

YLabel(mode) ==
    IF mode = "abs" THEN "Molar Absorptivity (L/(mol.cm))"
    ELSE IF mode = "emi" THEN "Emission Intensity (arb. units)"
    ELSE IF mode = "cd" \/ mode = "cdl" THEN "Delta-epsilon (L/(mol.cm))"
    ELSE ""

Title(mode) ==
    IF mode = "abs" THEN "Absorption Spectra"
    ELSE IF mode = "emi" THEN "Emission Spectra"
    ELSE IF mode = "cd" \/ mode = "cdl" THEN "Circular Dichroism Spectra"
    ELSE ""

XLabel(unit) ==
    IF unit = "nm" THEN "Wavelength (nm)"
    ELSE IF unit = "eV" THEN "Energy (eV)"
    ELSE IF unit = "cm-1" THEN "Wavenumber (cm-1)"
    ELSE ""

\* the SpectrumData of lines 380-467 on the x values xs
SpectrumOf(p, xs, file_index) ==
    [x_values |-> xs,
     y_values |-> [i \in 1..Len(xs) |-> Intensity(p.mode, p.unit, xs[i], file_index)],
     x_label |-> XLabel(p.unit),
     y_label |-> YLabel(p.mode),
     title |-> Title(p.mode)]

\* Spectrum, but every curve is computed as the curve of file_index 0
Spectrum_IndexIgnored(p, file_index) == SpectrumOf(p, XValues(p), 0)

\* the SpectrumData of lines 371-467, for a file that was opened and a loop
\* that ends
Spectrum(p, file_index) == SpectrumOf(p, XValues(p), file_index)

-----------------------------------------------------------------------------
(* create_and_export_multiple_plots: axis range and ticks *)

\* the largest power of ten m with m * parts <= range
RECURSIVE PowerOfTenBelow(_, _, _)
PowerOfTenBelow(m, range, parts) ==
    IF m * parts <= range \div 10 THEN PowerOfTenBelow(10 * m, range, parts) ELSE m

\* the ticks of lines 525-529 from `tick` on, tick <= bound
RECURSIVE TickLoop(_, _, _)
TickLoop(tick, nice_step, bound) ==
    IF tick <= bound - nice_step
    THEN <<tick>> \o TickLoop(tick + nice_step, nice_step, bound)
    ELSE <<tick>>

\* NiceStep, but with 3 * magnitude for 2 * magnitude
NiceStep_Three(range, target_ticks) ==
    LET parts == target_ticks - 1
        magnitude == PowerOfTenBelow(1, TickScale * range, parts)
        normalized_up == CeilDiv(TickScale * range, magnitude * parts)
    IN IF normalized_up <= 1 THEN magnitude
       ELSE IF normalized_up <= 2 THEN 3 * magnitude
       ELSE IF normalized_up <= 5 THEN 5 * magnitude
       ELSE 10 * magnitude

\* nice_step of lines 511-522 in 1/TickScale of the unit of the range, range > 0:
\* magnitude = 10^floor(log10(rough_step)) is the largest power of ten
\* <= rough_step = range / (target_ticks - 1), and normalized <= k exactly
\* when TickScale * range <= k * magnitude * (target_ticks - 1)
NiceStep(range, target_ticks) ==
    LET parts == target_ticks - 1
        magnitude == PowerOfTenBelow(1, TickScale * range, parts)
        normalized_up == CeilDiv(TickScale * range, magnitude * parts)
    IN IF normalized_up <= 1 THEN magnitude
       ELSE IF normalized_up <= 2 THEN 2 * magnitude
       ELSE IF normalized_up <= 5 THEN 5 * magnitude
       ELSE 10 * magnitude

\* calculateNiceTicks; the ticks count 1/TickScale of the unit of min_val.
\* range <= 0: log10 gives -inf or NaN, nice_step is 0 or NaN, start is NaN
\* and the loop condition is false at once
calculateNiceTicks(min_val, max_val, target_ticks) ==
    LET range == max_val - min_val IN
    IF range <= 0 THEN <<>>
    ELSE LET nice_step == NiceStep(range, target_ticks)
             start == CeilDiv(TickScale * min_val, nice_step) * nice_step
             bound == TickScale * max_val + nice_step \div 10
         IN IF start <= bound THEN TickLoop(start, nice_step, bound) ELSE <<>>

TargetTicks == 6

\* lines 533-542: <<overall_y_min, overall_y_max>>; garbage[1] and garbage[2]
\* are what *min_element and *max_element read of a curve without samples
OverallRange(curves, garbage) ==
    LET spec_min(i) == IF curves[i].y_values = <<>> THEN garbage[1]
                       ELSE SeqMin(curves[i].y_values)
        spec_max(i) == IF curves[i].y_values = <<>> THEN garbage[2]
                       ELSE SeqMax(curves[i].y_values)
    IN <<SeqMin([i \in 1..Len(curves) |-> spec_min(i)]),
         SeqMax([i \in 1..Len(curves) |-> spec_max(i)])>>

\* YRange, but the floor at 0 is applied in every mode
YRange_FloorAnyMode(mode, overall) ==
    LET y_range == overall[2] - overall[1]
    IN IF overall[1] >= 0
       THEN [y_min |-> 0, y_max |-> PadScale * overall[2] + y_range]
       ELSE [y_min |-> PadScale * overall[1] - y_range,
             y_max |-> PadScale * overall[2] + y_range]

\* YRange, but the floor at 0 is applied whatever the sign of the data
YRange_FloorAnySign(mode, overall) ==
    LET y_range == overall[2] - overall[1]
    IN IF mode # "cd" /\ mode # "cdl"
       THEN [y_min |-> 0, y_max |-> PadScale * overall[2] + y_range]
       ELSE [y_min |-> PadScale * overall[1] - y_range,
             y_max |-> PadScale * overall[2] + y_range]

\* lines 544-555: [y_min, y_max] in 1/PadScale of the unit of the samples
YRange(mode, overall) ==
    LET overall_y_min == overall[1]
        overall_y_max == overall[2]
        y_range == overall_y_max - overall_y_min
        \* y_range * 0.1, in 1/PadScale
        y_padding == y_range
    IN IF mode # "cd" /\ mode # "cdl" /\ overall_y_min >= 0
       THEN [y_min |-> 0, y_max |-> PadScale * overall_y_max + y_padding]
       ELSE [y_min |-> PadScale * overall_y_min - y_padding,
             y_max |-> PadScale * overall_y_max + y_padding]

NoChart == [composed |-> FALSE, x_min |-> 0, x_max |-> 0, y_min |-> 0, y_max |-> 0,
            x_ticks |-> <<>>, y_ticks |-> <<>>, x_title |-> "", y_title |-> "",
            plots |-> <<>>]

\* the colours of vtkColorSeries::SPECTRUM (line 621), as red, green, blue
SpectrumScheme ==
    << <<0, 0, 0>>, <<228, 26, 28>>, <<55, 126, 184>>, <<77, 175, 74>>,
       <<152, 78, 163>>, <<255, 127, 0>>, <<166, 86, 40>> >>

\* colors->GetColorRepeating(index), index from 0
GetColorRepeating(index) == SpectrumScheme[(index % Len(SpectrumScheme)) + 1]

\* Plots, but the circular dichroism modes start one colour further in the scheme
Plots_ColourByMode(curves, p) ==
    [spec_idx \in 1..Len(curves) |->
       [label |-> p.legend_names[spec_idx],
        points |-> Len(curves[spec_idx].x_values),
        color |-> GetColorRepeating(spec_idx - 1 + (IF p.mode \in {"cd", "cdl"} THEN 1 ELSE 0))]]

\* the plots of lines 623-653; spec_idx counts from 1 here and from 0 in the code
Plots(curves, p) ==
    [spec_idx \in 1..Len(curves) |->
       [label |-> p.legend_names[spec_idx],
        points |-> Len(curves[spec_idx].x_values),
        color |-> GetColorRepeating(spec_idx - 1)]]

\* the chart of lines 557-665
Chart(curves, p, garbage) ==
    LET yr == YRange(p.mode, OverallRange(curves, garbage)) IN
    [composed |-> TRUE,
     x_min |-> p.x_start, x_max |-> p.x_end,
     y_min |-> yr.y_min, y_max |-> yr.y_max,
     x_ticks |-> calculateNiceTicks(p.x_start, p.x_end, TargetTicks),
     y_ticks |-> calculateNiceTicks(yr.y_min, yr.y_max, TargetTicks),
     x_title |-> curves[1].x_label, y_title |-> curves[1].y_label,
     plots |-> Plots(curves, p)]

-----------------------------------------------------------------------------
(* create_and_export_multiple_plots: export *)

\* ExportPath, but jpg is not among the raster formats
ExportPath_NoJpg(output_format) ==
    IF output_format = "svg" \/ output_format = "eps" \/ output_format = "pdf"
    THEN "vector"
    ELSE IF output_format = "png" \/ output_format = "jpeg"
    THEN "raster"
    ELSE "none"

\* the branch of lines 670-708 that the format takes
ExportPath(output_format) ==
    IF output_format = "svg" \/ output_format = "eps" \/ output_format = "pdf"
    THEN "vector"
    ELSE IF output_format = "png" \/ output_format = "jpg" \/ output_format = "jpeg"
    THEN "raster"
    ELSE "none"

\* the extension that vtkGL2PSExporter appends to the file prefix for the file
\* format set in lines 674-680
GL2PSExtension(output_format) ==
    IF output_format = "svg" THEN "svg"
    ELSE IF output_format = "eps" THEN "eps"
    ELSE "pdf"

\* the files written by lines 670-708: name and extension, the writer, the
\* scale of the captured image and the quality of the compression (0: none set)
Written(p) ==
    IF ExportPath(p.output_format) = "vector"
    THEN {[name |-> p.output_filename, ext |-> GL2PSExtension(p.output_format),
           writer |-> "vtkGL2PSExporter", scale |-> 1, quality |-> 0]}
    ELSE IF ExportPath(p.output_format) = "raster"
    THEN {[name |-> p.output_filename, ext |-> p.output_format,
           writer |-> IF p.output_format = "png" THEN "vtkPNGWriter" ELSE "vtkJPEGWriter",
           scale |-> 2,
           quality |-> IF p.output_format = "png" THEN 0 ELSE 95]}
    ELSE {}

-----------------------------------------------------------------------------
(* The environment of a run: command lines, file systems, configuration modules *)

MaxArgs == 3

FileA == Name("", "a", "")
FileB == Name("runs/", "b", ".out")
FileGone == Name("", "gone", "")

PubConfig == "pub_config.py"

ArgAlphabet == {OptArg("-help"), OptArg("-no-interactive"), ConfigArg(PubConfig),
                FileArg(FileA), FileArg(FileB), FileArg(FileGone)}

ArgLists == UNION {[1..n -> ArgAlphabet] : n \in 0..MaxArgs}

\* a.log and runs/b.out exist; the configuration files and HOME vary
InputFiles == {Plus(FileA, ".log"), FileB}

FileSystems ==
    {[inputs |-> InputFiles, configs |-> {LocalConfig, HomeConfig, PubConfig}, home |-> TRUE],
     [inputs |-> InputFiles, configs |-> {HomeConfig}, home |-> TRUE],
     [inputs |-> InputFiles, configs |-> {HomeConfig}, home |-> FALSE]}

Module(mode, unit, range, format, filename, legend) ==
    [mode |-> mode, unit |-> unit,
     x_start |-> range[1], x_end |-> range[2], interval |-> range[3],
     output_format |-> format, output_filename |-> filename, legend_names |-> legend]

EmptyModule == Module(NULL, NULL, <<NULL, NULL, NULL>>, NULL, NULL, NULL)

ModeObjs == {PyStr("abs"), PyStr("emi"), PyStr("cd"), PyStr("cdl"), PyStr("raman"),
             PyLong(1), NULL}
UnitObjs == {PyStr("nm"), PyStr("eV"), PyStr("cm-1"), PyStr("hz"), NULL}

RangeNm == <<PyLong(250), PyLong(550), PyLong(50)>>
RangeEv == <<PyFloat(280), PyFloat(460), PyFloat(30)>>
RangeCm == <<PyLong(24000), PyLong(36000), PyLong(2000)>>

\* a range whose bands are in sight, for each unit
RangeOf(unit) ==
    IF unit = PyStr("eV") THEN RangeEv
    ELSE IF unit = PyStr("cm-1") THEN RangeCm
    ELSE RangeNm

RangeObjs ==
    {RangeNm, RangeEv, RangeCm,
     <<PyFloat(310), PyFloat(314), NULL>>,             \* the default interval
     <<PyLong(274), PyFloat(28700), PyFloat(250)>>,    \* x_end is not on a step
     <<PyLong(500), PyLong(300), PyLong(50)>>,         \* x_start > x_end
     <<PyLong(300), PyLong(300), PyLong(50)>>,         \* x_start = x_end
     <<PyLong(250), PyLong(550), PyLong(0)>>,          \* interval zero
     <<PyLong(250), PyLong(550), PyLong(-50)>>,        \* interval negative
     <<PyLong(250), PyLong(550), PyStr("fine")>>,      \* interval not a number
     <<PyLong(600), PyLong(300), PyLong(0)>>}          \* both

FormatObjs == {PyStr("svg"), PyStr("eps"), PyStr("pdf"), PyStr("png"), PyStr("jpg"),
               PyStr("jpeg"), PyStr("bmp"), PyStr("SVG"), PyLong(3), NULL}

LegendObjs ==
    {NULL, PyList(<<>>), PyStr("A"),
     PyList(<<PyStr("A")>>), PyList(<<PyStr("A"), PyStr("B")>>),
     PyList(<<PyStr("A"), PyStr("")>>), PyList(<<PyStr("A"), PyLong(7)>>),
     PyList(<<PyStr("A"), PyStr(""), PyStr("B")>>),
     PyList(<<PyStr("A"), PyStr("B"), PyStr("C")>>)}

Configs ==
    {Module(m, u, RangeOf(u), NULL, NULL, NULL) : m \in ModeObjs, u \in UnitObjs}
    \cup {Module(PyStr("abs"), u, r, NULL, NULL, NULL) :
            u \in {PyStr("nm"), PyStr("eV")}, r \in RangeObjs}
    \cup {Module(PyStr("abs"), PyStr("nm"), RangeNm, f, PyStr("fig"), NULL) : f \in FormatObjs}
    \cup {Module(PyStr("abs"), PyStr("nm"), RangeNm, PyStr("png"), NULL, l) : l \in LegendObjs}

\* what *min_element reads through the end iterator of an empty vector
GarbageReads == {-7 * YScale, 0, 9 * YScale}

-----------------------------------------------------------------------------
(* The run of main *)

Init ==
    /\ argv \in ArgLists
    /\ fs \in FileSystems
    /\ config = EmptyModule
    /\ pc = "main"
    /\ params = DefaultParams
    /\ spectra = <<>>
    /\ chart = NoChart
    /\ artifacts = {}
    /\ stdout = <<>>
    /\ stderr = <<>>
    /\ exit_code = -1
    /\ viewer_started = FALSE
    /\ py = NoPy
    /\ fn_in = <<>>
    /\ fn_out = <<>>

\* main, lines 719-726 and 738-741, with the outcome r of parse_arguments: it
\* returns, calls exit() or throws; d is the module that the interpreter imports
MainParses(r, d) ==
    /\ py' = r.py
    /\ config' = IF r.imported THEN d ELSE config
    /\ params' = r.params
    /\ pc' = IF r.kind = "ok" THEN "calc" ELSE "exit"
    /\ exit_code' = r.code
    /\ stdout' = IF r.kind = "ok" THEN Append(stdout, "Using config file")
                 ELSE Append(stdout, "Usage")
    /\ stderr' = IF r.kind = "throw" THEN Append(stderr, r.what) ELSE stderr

\* the interpreter starts and the configuration module, if the file exists, imports
ParseArguments ==
    /\ pc = "main"
    /\ \E d \in Configs : MainParses(parse_arguments(argv, fs, d, TRUE, TRUE), d)
    /\ UNCHANGED <<argv, fs, spectra, chart, artifacts, viewer_started, fn_in, fn_out>>

\* PyImport_ImportModule fails on the configuration file (a syntax error in it)
ParseArgumentsBadModule ==
    /\ pc = "main"
    /\ MainParses(parse_arguments(argv, fs, EmptyModule, FALSE, TRUE), EmptyModule)
    /\ UNCHANGED <<argv, fs, spectra, chart, artifacts, viewer_started, fn_in, fn_out>>

\* Py_IsInitialized() is false after Py_Initialize()
ParseArgumentsNoPython ==
    /\ pc = "main"
    /\ MainParses(parse_arguments(argv, fs, EmptyModule, TRUE, FALSE), EmptyModule)
    /\ UNCHANGED <<argv, fs, spectra, chart, artifacts, viewer_started, fn_in, fn_out>>

\* one turn of the loop of calculate_multiple_spectra (lines 485-488) and, after
\* the last one, lines 490-494
CalculateSingleSpectrum ==
    /\ pc = "calc"
    /\ LET file_index == Len(spectra)
           filename == params.input_filenames[file_index + 1]
           last == file_index + 1 = Len(params.input_filenames)
       IN IF ~CanOpen(filename, fs)
          THEN /\ pc' = "exit"
               /\ exit_code' = 1
               /\ stderr' = Append(stderr, "Cannot open BDF output file")
               /\ stdout' = Append(stdout, "Usage")
               /\ spectra' = spectra
          ELSE IF XLoopDiverges(params)
          THEN /\ pc' = "xloop"
               /\ stdout' = Append(stdout, "Processing")
               /\ UNCHANGED <<exit_code, stderr, spectra>>
          ELSE /\ spectra' = Append(spectra, Spectrum(params, file_index))
               /\ pc' = IF last THEN "plot" ELSE "calc"
               /\ stdout' = IF last
                            THEN stdout \o <<"Processing", "All spectra calculated successfully.">>
                            ELSE Append(stdout, "Processing")
               /\ UNCHANGED <<exit_code, stderr>>
    /\ UNCHANGED <<argv, fs, config, params, chart, artifacts, viewer_started, py,
                   fn_in, fn_out>>

\* the loop of lines 375-378 with interval <= 0 appends until no memory is left:
\* push_back throws std::bad_alloc (a std::exception), which main catches
MemoryExhausted ==
    /\ pc = "xloop"
    /\ pc' = "exit"
    /\ exit_code' = 1
    /\ stderr' = Append(stderr, "std::bad_alloc")
    /\ stdout' = Append(stdout, "Usage")
    /\ UNCHANGED <<argv, fs, config, params, spectra, chart, artifacts, viewer_started,
                   py, fn_in, fn_out>>

HasEmptyCurve == \E i \in 1..Len(spectra) : spectra[i].y_values = <<>>

\* lines 498-665: the axes, the ticks and the plots of the chart
ComposeChart ==
    /\ pc = "plot"
    /\ \E garbage \in IF HasEmptyCurve THEN GarbageReads \X GarbageReads ELSE {<<0, 0>>} :
         chart' = Chart(spectra, params, garbage)
    /\ pc' = "export"
    /\ stdout' = Append(stdout, "Creating visualization")
    /\ UNCHANGED <<argv, fs, config, params, spectra, artifacts, stderr, exit_code,
                   viewer_started, py, fn_in, fn_out>>

\* lines 538-539 on a curve without samples: the read through end() faults
ComposeFaults ==
    /\ pc = "plot"
    /\ HasEmptyCurve
    /\ pc' = "exit"
    /\ exit_code' = 139
    /\ UNCHANGED <<argv, fs, config, params, spectra, chart, artifacts, stdout, stderr,
                   viewer_started, py, fn_in, fn_out>>

\* lines 667-710
ExportPlot ==
    /\ pc = "export"
    /\ artifacts' = artifacts \cup Written(params)
    /\ stdout' = Append(stdout, "Plot exported to")
    /\ pc' = IF params.interactive THEN "viewer" ELSE "return"
    /\ UNCHANGED <<argv, fs, config, params, spectra, chart, stderr, exit_code,
                   viewer_started, py, fn_in, fn_out>>

\* lines 712-716: the viewer starts
StartViewer ==
    /\ pc = "viewer"
    /\ viewer_started' = TRUE
    /\ stdout' = Append(stdout, "Starting interactive viewer")
    /\ pc' = "viewing"
    /\ UNCHANGED <<argv, fs, config, params, spectra, chart, artifacts, stderr,
                   exit_code, py, fn_in, fn_out>>

\* the user closes the window and view->GetInteractor()->Start() returns
CloseViewer ==
    /\ pc = "viewing"
    /\ pc' = "return"
    /\ UNCHANGED <<argv, fs, config, params, spectra, chart, artifacts, stdout, stderr,
                   exit_code, viewer_started, py, fn_in, fn_out>>

\* main, lines 734-736
MainReturn ==
    /\ pc = "return"
    /\ stdout' = Append(stdout, "Processing completed successfully!")
    /\ exit_code' = 0
    /\ pc' = "exit"
    /\ UNCHANGED <<argv, fs, config, params, spectra, chart, artifacts, stderr,
                   viewer_started, py, fn_in, fn_out>>

Next ==
    \/ ParseArguments
    \/ ParseArgumentsBadModule
    \/ ParseArgumentsNoPython
    \/ CalculateSingleSpectrum
    \/ MemoryExhausted
    \/ ComposeChart
    \/ ComposeFaults
    \/ ExportPlot
    \/ StartViewer
    \/ CloseViewer
    \/ MainReturn

Spec == Init /\ [][Next]_vars

-----------------------------------------------------------------------------
(* The functions of the pipeline applied to inputs drawn from bounded sets *)

\* no run of main: only the function under study acts
NoRun ==
    /\ argv = <<>>
    /\ fs = [inputs |-> {}, configs |-> {}, home |-> FALSE]
    /\ config = EmptyModule
    /\ pc = "fn"
    /\ params = DefaultParams
    /\ spectra = <<>>
    /\ chart = NoChart
    /\ artifacts = {}
    /\ stdout = <<>>
    /\ stderr = <<>>
    /\ exit_code = -1
    /\ viewer_started = FALSE
    /\ py = NoPy

Applied ==
    /\ pc' = "applied"
    /\ UNCHANGED <<argv, fs, config, params, spectra, chart, artifacts, stdout, stderr,
                   exit_code, viewer_started, py, fn_in>>

\* calculate_single_spectrum (lines 371-467) for file_index 0, one turn of the
\* loop of lines 375-378 at a time; fn_out is [current_x, x_values] in the loop
\* and the SpectrumData after it
MaxX == 4
MaxStep == 3

XInputs ==
    {[x_start |-> a, x_end |-> b, interval |-> c] :
        a \in -MaxX..MaxX, b \in -MaxX..MaxX, c \in 1..MaxStep}
    \cup {[x_start |-> DefaultParams.x_start, x_end |-> DefaultParams.x_end,
           interval |-> DefaultParams.interval]}

XParams(in) == [DefaultParams EXCEPT !.x_start = in.x_start, !.x_end = in.x_end,
                                     !.interval = in.interval]

InitX ==
    /\ NoRun
    /\ fn_in \in XInputs
    /\ fn_out = [current_x |-> fn_in.x_start, x_values |-> <<>>]

XLoopTurn ==
    /\ pc = "fn"
    /\ XLoopCondition(fn_out.current_x, fn_in.x_end)
    /\ fn_out' = [current_x |-> fn_out.current_x + fn_in.interval,
                  x_values |-> Append(fn_out.x_values, fn_out.current_x)]
    /\ UNCHANGED <<argv, fs, config, pc, params, spectra, chart, artifacts, stdout,
                   stderr, exit_code, viewer_started, py, fn_in>>

XLoopEnds ==
    /\ pc = "fn"
    /\ ~XLoopCondition(fn_out.current_x, fn_in.x_end)
    /\ fn_out' = SpectrumOf(XParams(fn_in), fn_out.x_values, 0)
    /\ Applied

NextX == XLoopTurn \/ XLoopEnds

SpecX == InitX /\ [][NextX]_vars

\* the axis range and the ticks of lines 533-576 on curves of any samples
MaxCurves == 2
MaxSamples == 2
MaxSample == 2

SampleValues == {-MaxSample, 0, 1, MaxSample}
AxisModes == {"abs", "emi", "cd", "cdl", "raman"}

\* the curves of one chart have the same number of samples
CurveLists ==
    UNION {[1..k -> [1..len -> SampleValues]] : k \in 1..MaxCurves, len \in 1..MaxSamples}

CurveOf(y_values) ==
    [x_values |-> [i \in 1..Len(y_values) |-> i * XScale], y_values |-> y_values,
     x_label |-> "", y_label |-> "", title |-> ""]

AxisParams(in) ==
    [DefaultParams EXCEPT !.mode = in.mode,
                          !.x_start = 1 * XScale, !.x_end = MaxSamples * XScale,
                          !.legend_names = [i \in 1..Len(in.ys) |-> "curve"]]

InitAxis ==
    /\ NoRun
    /\ \E m \in AxisModes, ys \in CurveLists : fn_in = [mode |-> m, ys |-> ys]
    /\ fn_out = <<>>

ApplyChart ==
    /\ pc = "fn"
    /\ fn_out' = Chart([i \in 1..Len(fn_in.ys) |-> CurveOf(fn_in.ys[i])],
                       AxisParams(fn_in), <<0, 0>>)
    /\ Applied

SpecAxis == InitAxis /\ [][ApplyChart]_vars

\* calculateNiceTicks (lines 510-531) on ranges of any bounds
MaxTick == 12

TickValues ==
    (-MaxTick..MaxTick)
    \cup {-250, 37, 99, 100, 250, 1000, 4999, 5000, 5001, 20000, 100000, 16500000}

TickInputs == {[min_val |-> a, max_val |-> b] : a \in TickValues, b \in TickValues}

InitTicks == NoRun /\ fn_in \in TickInputs /\ fn_out = <<>>

ApplyTicks ==
    /\ pc = "fn"
    /\ fn_out' = calculateNiceTicks(fn_in.min_val, fn_in.max_val, TargetTicks)
    /\ Applied

SpecTicks == InitTicks /\ [][ApplyTicks]_vars

\* the plots of lines 619-653 in two runs, a and b, that need not agree in
\* anything: number of curves, mode, samples, legend names
MaxPlots == 8

PlotRuns ==
    [count : 1..MaxPlots, mode : {"abs", "cd"}, sample : {0, 1}, name : {"A", "B"}]

PlotCurves(run) == [i \in 1..run.count |-> CurveOf(<<0, run.sample * YScale>>)]

PlotParams(run) ==
    [DefaultParams EXCEPT !.mode = run.mode,
                          !.x_start = 1 * XScale, !.x_end = 2 * XScale,
                          !.legend_names = [i \in 1..run.count |-> run.name]]

InitPlots ==
    /\ NoRun
    /\ \E a \in PlotRuns, b \in PlotRuns : fn_in = [a |-> a, b |-> b]
    /\ fn_out = <<>>

ApplyPlots ==
    /\ pc = "fn"
    /\ fn_out' = [a |-> Chart(PlotCurves(fn_in.a), PlotParams(fn_in.a), <<0, 0>>).plots,
                  b |-> Chart(PlotCurves(fn_in.b), PlotParams(fn_in.b), <<0, 0>>).plots]
    /\ Applied

SpecPlots == InitPlots /\ [][ApplyPlots]_vars

\* one sample of calculate_single_spectrum (lines 383-456): the intensity at x
\* of the curve of file_index, in the modes and units that have bands
MaxIndex == 7

\* the x values at which the sample is taken, around the bands of the unit
XGrid(unit) ==
    IF unit = "nm" THEN {10 * k * XScale : k \in 20..62}
    ELSE IF unit = "eV" THEN {5 * k : k \in 50..100}
    ELSE {1000 * k * XScale : k \in 20..52}

BandInputs ==
    UNION {[mode : {"abs", "emi", "cd", "cdl"}, unit : {unit}, x : XGrid(unit),
            file_index : 0..MaxIndex] : unit \in {"nm", "eV", "cm-1"}}

InitBands == NoRun /\ fn_in \in BandInputs /\ fn_out = <<>>

ApplyIntensity ==
    /\ pc = "fn"
    /\ fn_out' = Intensity(fn_in.mode, fn_in.unit, fn_in.x, fn_in.file_index)
    /\ Applied

SpecBands == InitBands /\ [][ApplyIntensity]_vars

\* calculateNiceTicks (lines 510-531) in double arithmetic where the doubles are
\* coarse: in [2^53, 2^54) the doubles are the even integers.  A value of that
\* range is held as its offset from 2^53, in 1/OffsetScale; sums and products
\* are rounded to the nearest double, a tie to the double of even mantissa.
\* Steps and ranges are small numbers, exact as in NiceStep.
OffsetScale == 100
BaseExponent == 53

\* the distance of two neighbouring doubles in [2^53, 2^54)
Ulp == 2 * OffsetScale

\* the double nearest to 2^53 + r
RoundInBinade(r) ==
    LET lower == (r \div Ulp) * Ulp
        rem == r - lower
    IN IF 2 * rem < Ulp THEN lower
       ELSE IF 2 * rem > Ulp THEN lower + Ulp
       ELSE IF lower % (2 * Ulp) = 0 THEN lower ELSE lower + Ulp

\* 2^e mod d
RECURSIVE PowerOfTwoMod(_, _)
PowerOfTwoMod(e, d) == IF e = 0 THEN 1 % d ELSE (2 * PowerOfTwoMod(e - 1, d)) % d

\* the least j with d <= 2^j
CeilLog2(d) == CHOOSE j \in 0..30 : d <= 2^j /\ (j = 0 \/ 2^(j - 1) < d)

\* start = std::ceil(min_val / nice_step) * nice_step (line 526) for
\* min_val = 2^53 + min_off / OffsetScale and nice_step in 1/OffsetScale, a
\* multiple of 1/2.  With d = 2 * nice_step the quotient is
\* (2^54 + 2 * min_off) / d: exact for d = 1, 2, 4; otherwise it lies in
\* [2^(54 - j), 2^(55 - j)), j = CeilLog2(d), where the doubles are the
\* multiples of 1 / grid, grid = 2^(j - 2)
TickStart(min_off, nice_step) ==
    LET d == (2 * nice_step) \div OffsetScale
        units == min_off \div OffsetScale
    IN IF d \in {1, 2, 4} THEN RoundInBinade(min_off)
       ELSE LET grid == 2^(CeilLog2(d) - 2)
                rest == PowerOfTwoMod(BaseExponent + 1, d)
                n == (2 * units + rest) * grid
                lower == n \div d
                rem == n - lower * d
                quotient == IF 2 * rem < d THEN lower
                            ELSE IF 2 * rem > d THEN lower + 1
                            ELSE IF lower % 2 = 0 THEN lower ELSE lower + 1
                ceiling == CeilDiv(quotient, grid)
            IN RoundInBinade(((ceiling * d - rest) * OffsetScale) \div 2)

\* max_val + nice_step * 0.1 (line 527)
TickBound(max_off, nice_step) == RoundInBinade(max_off + nice_step \div 10)

\* tick += nice_step (line 527)
NextTick(tick, nice_step) == RoundInBinade(tick + nice_step)

MaxUlps == 13
MaxTurns == 8

CoarseInputs ==
    {[min_off |-> a * Ulp, max_off |-> b * Ulp] : a \in 0..MaxUlps, b \in 0..MaxUlps}

\* nice_step of lines 511-522, in 1/OffsetScale
CoarseStep(in) ==
    (NiceStep((in.max_off - in.min_off) \div OffsetScale, TargetTicks) * OffsetScale)
        \div TickScale

InitCoarse ==
    /\ NoRun
    /\ fn_in \in {in \in CoarseInputs : in.min_off < in.max_off}
    /\ fn_out = [tick |-> TickStart(fn_in.min_off, CoarseStep(fn_in)), ticks |-> <<>>]

\* one turn of the loop of lines 527-529
TickTurn ==
    /\ pc = "fn"
    /\ fn_out.tick <= TickBound(fn_in.max_off, CoarseStep(fn_in))
    /\ Len(fn_out.ticks) < MaxTurns
    /\ fn_out' = [tick |-> NextTick(fn_out.tick, CoarseStep(fn_in)),
                  ticks |-> Append(fn_out.ticks, fn_out.tick)]
    /\ UNCHANGED <<argv, fs, config, pc, params, spectra, chart, artifacts, stdout,
                   stderr, exit_code, viewer_started, py, fn_in>>

\* the condition of line 527 is false: calculateNiceTicks returns (line 530)
TickLoopEnds ==
    /\ pc = "fn"
    /\ fn_out.tick > TickBound(fn_in.max_off, CoarseStep(fn_in))
    /\ fn_out' = fn_out
    /\ Applied

NextCoarse == TickTurn \/ TickLoopEnds

SpecCoarse == InitCoarse /\ [][NextCoarse]_vars

-----------------------------------------------------------------------------
(* Properties of the run of main, checked under Spec *)

SupportedFormats == {"svg", "eps", "pdf", "png", "jpg", "jpeg"}

Said(message) == \E i \in 1..Len(stdout) : stdout[i] = message
Complained(message) == \E i \in 1..Len(stderr) : stderr[i] = message

\* the arguments that name an input source, in command-line order
SourceArgs == SelectSeq(argv, LAMBDA a : a.opt = "")
NoInputSource == \A i \in 1..Len(argv) : argv[i].opt # ""
AsksHelp == \E i \in 1..Len(argv) : argv[i].opt \in {"-help", "--help"}

\* parse_arguments returned a parameter record
Parsed == pc # "main" /\ params.input_filenames # <<>>

\* no file of this name exists, nor one of the names that are tried after it
Unopenable(filename) ==
    /\ filename \notin fs.inputs
    /\ \/ filename.ext \in {".out", ".log"}
       \/ /\ Plus(filename, ".out") \notin fs.inputs
          /\ Plus(filename, ".log") \notin fs.inputs

\* C1: when output_format is none of svg, eps, pdf, png, jpg, jpeg, the export
\* step writes no artifact, does not announce an export and the process does not
\* end with exit code 0.
C1_UnknownFormatIsReported ==
    (chart.composed /\ params.output_format \notin SupportedFormats)
        => (artifacts = {} /\ ~Said("Plot exported to") /\ exit_code # 0)

\* C2, as stated: every command line that names no input source ends with exit
\* code 1, with no curve synthesized and no artifact written.
C2_NoSourceExitsWithOne ==
    (NoInputSource /\ pc = "exit")
        => (exit_code = 1 /\ spectra = <<>> /\ artifacts = {})

\* C2, amended: a command line that names no input source ends in
\* parse_arguments with no curve synthesized, no chart and no artifact; its exit
\* code is 0 when -help or --help is among the arguments and 1 otherwise; and the
\* chart is never composed from an empty list of curves.
C2_NoSourceEndsInParsing ==
    /\ NoInputSource =>
         /\ pc \in {"main", "exit"}
         /\ spectra = <<>> /\ ~chart.composed /\ artifacts = {}
         /\ pc = "exit" => exit_code = (IF AsksHelp THEN 0 ELSE 1)
    /\ (pc = "plot" \/ chart.composed) => spectra # <<>>

\* a command line of options only, without -help, has ended with exit code 1
C2_Witness ==
    /\ argv # <<>> /\ NoInputSource /\ ~AsksHelp
    /\ pc = "exit" /\ exit_code = 1 /\ Complained("No input files provided")

\* C3: when one of the input sources of the run cannot be opened, no chart is
\* composed, no artifact is written, the viewer is never started, and the
\* process exits with code 1.
C3_UnopenableSourceIsFatal ==
    (Parsed /\ \E i \in 1..Len(params.input_filenames) :
                  Unopenable(params.input_filenames[i]))
        => /\ ~chart.composed
           /\ artifacts = {}
           /\ ~viewer_started
           /\ pc \in {"calc", "xloop", "exit"}
           /\ pc = "exit" => exit_code = 1

\* the last source could not be opened after an earlier one was synthesized
C3_Witness ==
    /\ pc = "exit" /\ exit_code = 1
    /\ Complained("Cannot open BDF output file")
    /\ Len(params.input_filenames) >= 2
    /\ Len(spectra) = Len(params.input_filenames) - 1
    /\ Unopenable(params.input_filenames[Len(params.input_filenames)])

\* C4: every parameter record that reaches the loop of x values of
\* calculate_single_spectrum has x_start < x_end and interval > 0.
C4_SynthesisHasValidRange ==
    (pc = "xloop" \/ spectra # <<>>)
        => (params.x_start < params.x_end /\ params.interval > 0)

\* the list of names that the configuration gives: the non-empty strings of
\* legend_names, when it is a list
ConfiguredLegend ==
    IF config.legend_names.type = "list"
    THEN LET kept == SelectSeq(config.legend_names.items,
                               LAMBDA o : o.type = "str" /\ o.s # "")
         IN [i \in 1..Len(kept) |-> kept[i].s]
    ELSE <<>>

\* C5: after parse_arguments, legend_names has as many entries as there are input
\* sources; when the configured list is absent or of another length it is the
\* stems of the input sources in command-line order; plot i has the label
\* legend_names[i].
C5_LegendNamesMatchSources ==
    Parsed =>
        /\ Len(params.input_filenames) = Len(SourceArgs)
        /\ Len(params.legend_names) = Len(SourceArgs)
        /\ (ConfiguredLegend = <<>> \/ Len(ConfiguredLegend) # Len(SourceArgs))
             => \A i \in 1..Len(SourceArgs) :
                    params.legend_names[i] = SourceArgs[i].file.stem
        /\ chart.composed
             => /\ Len(chart.plots) = Len(SourceArgs)
                /\ \A i \in 1..Len(SourceArgs) :
                       chart.plots[i].label = params.legend_names[i]

\* three names are configured for two sources, and the plots carry the stems
C5_Witness ==
    /\ chart.composed
    /\ Len(ConfiguredLegend) = 3
    /\ Len(SourceArgs) = 2
    /\ \A i \in 1..2 : chart.plots[i].label = SourceArgs[i].file.stem

\* the modes and units that calculate_single_spectrum knows
KnownModes == {"abs", "emi", "cd", "cdl"}
KnownUnits == {"nm", "eV", "cm-1"}

\* no branch of lines 387-456 adds a band for this mode and unit
NoBandModel(p) ==
    \/ p.mode \notin KnownModes
    \/ p.unit \notin KnownUnits
    \/ p.mode \in {"emi", "cd", "cdl"} /\ p.unit = "cm-1"

ZeroCurve(curve) ==
    /\ Len(curve.y_values) = Len(curve.x_values)
    /\ \A i \in 1..Len(curve.y_values) : curve.y_values[i] = 0

\* C10: a parameter record whose mode or unit has no band model does not make
\* synthesis fail: the call of calculate_single_spectrum on a source that opens
\* appends a curve and sets no exit code; the curve has one sample per x value,
\* all zero; an unknown mode leaves y_label and title empty and an unknown unit
\* leaves x_label empty.
C10_NoBandModelGivesZeroCurve ==
    [][(/\ pc = "calc"
        /\ NoBandModel(params)
        /\ params.interval > 0
        /\ ~Unopenable(params.input_filenames[Len(spectra) + 1]))
         => /\ Len(spectra') = Len(spectra) + 1
            /\ pc' \in {"calc", "plot"}
            /\ exit_code' = exit_code
            /\ stderr' = stderr
            /\ LET curve == spectra'[Len(spectra')]
               IN /\ ZeroCurve(curve)
                  /\ curve.x_values # <<>>
                  /\ params.mode \notin KnownModes
                       => curve.y_label = "" /\ curve.title = ""
                  /\ params.unit \notin KnownUnits => curve.x_label = ""]_vars

\* a run in a mode that is not known has ended with exit code 0 after a curve of
\* zeros without labels of the mode was synthesized
C10_Witness ==
    /\ pc = "exit" /\ exit_code = 0
    /\ params.mode = "raman"
    /\ spectra # <<>>
    /\ spectra[1].x_values # <<>>
    /\ ZeroCurve(spectra[1])
    /\ spectra[1].y_label = "" /\ spectra[1].title = ""
    /\ spectra[1].x_label # ""

\* C13: for output_format svg, eps or pdf the export step writes through the
\* vector exporter, for png, jpg or jpeg through the raster path at scale 2, with
\* the PNG writer for png and the JPEG writer at quality 95 otherwise; after the
\* export step there is exactly one artifact, named <output_filename>.<format>.
C13_ExportDispatch ==
    (Said("Plot exported to") /\ params.output_format \in SupportedFormats)
        => /\ Cardinality(artifacts) = 1
           /\ \A file \in artifacts :
                /\ file.name = params.output_filename
                /\ file.ext = params.output_format
                /\ params.output_format \in {"svg", "eps", "pdf"}
                     => file.writer = "vtkGL2PSExporter"
                /\ params.output_format = "png"
                     => file.writer = "vtkPNGWriter" /\ file.scale = 2
                /\ params.output_format \in {"jpg", "jpeg"}
                     => file.writer = "vtkJPEGWriter" /\ file.scale = 2
                          /\ file.quality = 95

\* a run with output_format = 'jpg' has ended with exit code 0 and fig.jpg
C13_Witness ==
    /\ pc = "exit" /\ exit_code = 0
    /\ params.output_format = "jpg"
    /\ \E file \in artifacts :
           file.name = "fig" /\ file.ext = "jpg" /\ file.writer = "vtkJPEGWriter"

\* -no-interactive is among the arguments
NoInteractive == \E i \in 1..Len(argv) : argv[i].opt = "-no-interactive"

\* C14: the viewer is started only when interactive is true and only after the
\* export step; with -no-interactive it is never started and main returns in the
\* step after the export; with interactive true the run reaches its successful
\* exit only through the return of the viewer loop.
C14_ViewerAfterExport ==
    /\ [](/\ viewer_started => params.interactive /\ Said("Plot exported to")
          /\ pc \in {"viewer", "viewing"} => params.interactive /\ Said("Plot exported to")
          /\ (Parsed /\ NoInteractive) => ~params.interactive /\ ~viewer_started
          /\ (Parsed /\ ~NoInteractive) => params.interactive
          /\ (Parsed /\ pc = "exit" /\ exit_code = 0 /\ params.interactive)
               => viewer_started)
    /\ [][/\ (pc = "export" /\ ~params.interactive) => pc' = "return"
          /\ (pc = "export" /\ params.interactive) => pc' = "viewer" /\ ~viewer_started'
          /\ (pc' = "return" /\ params.interactive)
               => pc = "viewing" /\ viewer_started]_vars

\* an interactive run has ended with exit code 0 after the viewer was closed
C14_Witness ==
    /\ pc = "exit" /\ exit_code = 0
    /\ ~NoInteractive /\ params.interactive
    /\ viewer_started
    /\ artifacts # {}

\* how often a message was written to std::cout
Times(message) == Cardinality({i \in 1..Len(stdout) : stdout[i] = message})

\* C15: the stages of a run follow one another in a fixed order, each once: the
\* curves are synthesized one after the other in the order of the input
\* sources, curve i from source i with file_index i - 1 (counting curves from
\* 1); the chart, with its y range and ticks, is composed once, when every
\* curve exists; the export step runs once, after that; a curve that was
\* synthesized is never changed.
C15_StagesInOrder ==
    /\ [](/\ Len(spectra) <= Len(params.input_filenames)
          /\ \A i \in 1..Len(spectra) :
                /\ ~Unopenable(params.input_filenames[i])
                /\ spectra[i] = SpectrumOf(params, XValues(params), i - 1)
          /\ Times("Processing") \in {Len(spectra), Len(spectra) + 1}
          /\ (pc \in {"plot", "export", "viewer", "viewing", "return"} \/ chart.composed)
               => Len(spectra) = Len(params.input_filenames) /\ spectra # <<>>
          /\ chart.composed <=> pc \in {"export", "viewer", "viewing", "return"}
                                  \/ (pc = "exit" /\ exit_code = 0 /\ Parsed)
          /\ artifacts # {} => chart.composed /\ Cardinality(artifacts) = 1
          /\ Times("Creating visualization") = (IF chart.composed THEN 1 ELSE 0)
          /\ Times("Plot exported to") <= 1
          /\ Said("Plot exported to") => chart.composed
          /\ (pc = "exit" /\ exit_code = 0 /\ Parsed)
               => /\ Times("Processing") = Len(params.input_filenames)
                  /\ Times("All spectra calculated successfully.") = 1
                  /\ Times("Plot exported to") = 1)
    /\ [][/\ \A i \in 1..Len(spectra) : i <= Len(spectra') /\ spectra'[i] = spectra[i]
          /\ Len(spectra') <= Len(spectra) + 1
          /\ spectra' # spectra => pc = "calc" /\ ~chart.composed /\ artifacts = {}
          /\ chart' # chart => pc = "plot" /\ ~chart.composed /\ spectra' = spectra
          /\ (artifacts' # artifacts \/ Times("Plot exported to")' # Times("Plot exported to"))
               => pc = "export" /\ chart' = chart /\ spectra' = spectra
          /\ params' # params => pc = "main"]_vars

\* a run on two sources has ended with exit code 0: two curves that differ, the
\* chart and one artifact
C15_Witness ==
    /\ pc = "exit" /\ exit_code = 0
    /\ Len(params.input_filenames) = 2
    /\ params.input_filenames[1] # params.input_filenames[2]
    /\ Len(spectra) = 2
    /\ spectra[1] # spectra[2]
    /\ chart.composed
    /\ Cardinality(artifacts) = 1

\* C16: when the y range sent to the axis is degenerate (y_min = y_max, as for
\* curves of zeros), calculateNiceTicks still gives the y axis at least one tick,
\* and every tick it gives lies at the one value of the range.
C16_DegenerateRangeHasTicks ==
    (chart.composed /\ ~HasEmptyCurve /\ chart.y_min = chart.y_max)
        => /\ Len(chart.y_ticks) >= 1
           /\ \A i \in 1..Len(chart.y_ticks) : chart.y_ticks[i] = TickScale * chart.y_min

\* C19: the interpreter is initialized at most once in a run; an initialization
\* that succeeded is followed by exactly one finalization, whether
\* read_config_file returns or the import fails; the interpreter is finalized
\* before the first curve is synthesized and before anything is exported, and
\* nothing after parse_arguments touches it.
C19_InterpreterIsScoped ==
    /\ [](/\ py.inits <= 1 /\ py.finals <= py.inits
          /\ (py.inits = 1 /\ ~Complained("Failed to initialize Python interpreter"))
               => py.finals = 1
          /\ Complained("Failed to initialize Python interpreter")
               => py.inits = 1 /\ py.finals = 0 /\ pc = "exit" /\ exit_code = 1
          /\ Complained("Failed to import config file")
               => py.inits = 1 /\ py.finals = 1 /\ pc = "exit" /\ exit_code = 1
          /\ (Parsed \/ spectra # <<>> \/ chart.composed \/ artifacts # {})
               => py.inits = 1 /\ py.finals = 1)
    /\ [][py' # py => pc = "main"]_vars

\* the import of the configuration module failed and the interpreter, which was
\* initialized, is finalized
C19_Witness ==
    /\ pc = "exit" /\ exit_code = 1
    /\ Complained("Failed to import config file")
    /\ py.inits = 1 /\ py.finals = 1

\* the stems of the input sources, in command-line order
SourceStems == [i \in 1..Len(SourceArgs) |-> SourceArgs[i].file.stem]

\* the configured legend_names is a list with an item that is no string or is
\* the empty string
HasDroppedItem ==
    /\ config.legend_names.type = "list"
    /\ \E i \in 1..Len(config.legend_names.items) :
           \/ config.legend_names.items[i].type # "str"
           \/ config.legend_names.items[i].s = ""

\* C20: the configured legend_names are the labels only if the list, after the
\* items that are not strings or are empty were dropped, has as many names as
\* there are input sources; a list of as many items as sources with such an
\* item is shorter after the drop, and every label is the stem of its source.
C20_LegendSurvivesFiltering ==
    Parsed =>
        /\ params.legend_names = (IF Len(ConfiguredLegend) = Len(SourceArgs)
                                  THEN ConfiguredLegend ELSE SourceStems)
        /\ (HasDroppedItem /\ Len(config.legend_names.items) = Len(SourceArgs))
             => /\ Len(ConfiguredLegend) < Len(SourceArgs)
                /\ params.legend_names = SourceStems
                /\ chart.composed
                     => \A i \in 1..Len(SourceArgs) : chart.plots[i].label = SourceStems[i]

\* two names, one of them empty, are configured for two sources: the chart has
\* the stems as labels, also where a name was given
C20_Witness ==
    /\ chart.composed
    /\ Len(SourceArgs) = 2
    /\ HasDroppedItem
    /\ Len(config.legend_names.items) = 2
    /\ config.legend_names.items[1] = PyStr("A")
    /\ chart.plots[1].label = SourceStems[1]
    /\ chart.plots[1].label # "A"

-----------------------------------------------------------------------------
(* Properties of the x values, checked under SpecX *)

-----------------------------------------------------------------------------
(* Properties of the y range, checked under SpecAxis *)

\* the samples of all curves of the chart
AllSamples ==
    UNION {{fn_in.ys[i][j] : j \in DOMAIN fn_in.ys[i]} : i \in DOMAIN fn_in.ys}

\* the least and the greatest sample
LeastSample == CHOOSE v \in AllSamples : \A w \in AllSamples : v <= w
GreatestSample == CHOOSE v \in AllSamples : \A w \in AllSamples : w <= v

C7_RangeContainsData ==
    pc = "applied" =>
        \A v \in AllSamples : fn_out.y_min <= PadScale * v /\ PadScale * v <= fn_out.y_max

\* absorption curves with a negative sample: the floor is not applied and the
\* axis starts below the least sample
C7_Witness ==
    /\ pc = "applied"
    /\ fn_in.mode = "abs"
    /\ LeastSample < 0 /\ GreatestSample > 0
    /\ fn_out.y_min < PadScale * LeastSample
    /\ fn_out.y_max > PadScale * GreatestSample

-----------------------------------------------------------------------------
(* Properties of the ticks, checked under SpecTicks *)

\* the powers of ten from 1/TickScale on that a step of the inputs can have
PowersOfTen == {1, 10, 100, 1000, 10000, 100000, 1000000, 10000000}

\* the step of the 1-2-5-10 rule for a range, in 1/TickScale: with m the power
\* of ten such that m <= range / 5 < 10 * m, it is m, 2m, 5m or 10m, the least
\* of them that is >= range / 5
IsNiceStepOf(step, range) ==
    \E m \in PowersOfTen :
        /\ 5 * m <= TickScale * range /\ TickScale * range < 50 * m
        /\ step \in {m, 2 * m, 5 * m, 10 * m}
        /\ 5 * step >= TickScale * range
        /\ \A other \in {m, 2 * m, 5 * m, 10 * m} :
               5 * other >= TickScale * range => step <= other

StepCandidates == {k * m : k \in {1, 2, 5, 10}, m \in PowersOfTen}

-----------------------------------------------------------------------------
(* Properties of the plots, checked under SpecPlots *)

\* C11: the plots of one chart have pairwise distinct colours, whatever the
\* number of curves: for positions i # j the colour of plot i is not the colour
\* of plot j.
C11_ColoursAreDistinct ==
    pc = "applied" =>
        \A i \in 1..Len(fn_out.a) : \A j \in 1..Len(fn_out.a) :
            i # j => fn_out.a[i].color # fn_out.a[j].color

\* C12: the colour of the plot at position i depends on i only: two runs give
\* the same colour to every position that both have, whatever their modes,
\* samples and legend names, so runs with the same number of sources have the
\* same colours in the same order.
C12_ColoursDependOnPositionOnly ==
    pc = "applied" =>
        /\ \A i \in 1..Len(fn_out.a) :
               i <= Len(fn_out.b) => fn_out.a[i].color = fn_out.b[i].color
        /\ fn_in.a.count = fn_in.b.count
             => [i \in 1..Len(fn_out.a) |-> fn_out.a[i].color]
                  = [i \in 1..Len(fn_out.b) |-> fn_out.b[i].color]

\* two runs of as many curves that differ in mode, samples and legend names and
\* whose plots differ in their labels have the same colours
C12_Witness ==
    /\ pc = "applied"
    /\ fn_in.a.count = fn_in.b.count /\ fn_in.a.count >= 3
    /\ fn_in.a.mode # fn_in.b.mode
    /\ fn_in.a.sample # fn_in.b.sample
    /\ fn_out.a[1].label # fn_out.b[1].label
    /\ \A i \in 1..fn_in.a.count : fn_out.a[i].color = fn_out.b[i].color
    /\ fn_out.a[1].color # fn_out.a[2].color

-----------------------------------------------------------------------------
(* Properties of the samples, checked under SpecBands *)

\* the shift of the band centres that is stated for source index i: 20 * i in
\* nm, 20 * i / 1000 in eV, 20 * i * 100 in cm-1, in 1/XScale
StatedShift(unit, i) ==
    IF unit = "eV" THEN (20 * i * XScale) \div 1000
    ELSE IF unit = "cm-1" THEN 20 * i * 100 * XScale
    ELSE 20 * i * XScale

\* the band of index 0 with its centre moved by shift and its amplitude
\* multiplied by 1 - 0.15 * i = (100 - 15 * i) / 100
StatedBand(band, shift, i) ==
    <<(band[1] * (100 - 15 * i)) \div 100, band[2] + shift, band[3]>>

\* the sample at x of the bands of index 0 changed as stated for index i
StatedIntensity(mode, unit, x, i) ==
    LET bands == Bands(mode, unit)
        term(k) == LET b == StatedBand(bands[k], StatedShift(unit, i), i)
                   IN TruncDiv(b[1] * Gauss(x - b[2], b[3]), 100)
        sum[k \in 0..Len(bands)] == IF k = 0 THEN 0 ELSE sum[k - 1] + term(k)
    IN sum[Len(bands)]

\* C17: the curve of source index i is the curve of the bands of index 0 with
\* every centre shifted by 20 * i nm (20 * i / 1000 eV, 20 * i * 100 cm-1) and
\* every amplitude multiplied by 1 - 0.15 * i; for index 1 the bands are 20 nm
\* higher and the amplitudes are 85% of those of index 0.
C17_VariationByIndex ==
    pc = "applied" =>
        /\ fn_out = StatedIntensity(fn_in.mode, fn_in.unit, fn_in.x, fn_in.file_index)
        /\ (fn_in.file_index = 1 /\ fn_in.unit = "nm")
             => LET moved == Intensity(fn_in.mode, fn_in.unit, fn_in.x - 20 * XScale, 0)
                    bands == Len(Bands(fn_in.mode, fn_in.unit))
                IN /\ 20 * fn_out - 17 * moved <= 20 * bands
                   /\ 17 * moved - 20 * fn_out <= 20 * bands

\* the sample of the curve of index 1 in absorption mode at 300 nm, the centre
\* of its first band: 85% of 15000 and what the next band adds
C17_Witness ==
    /\ pc = "applied"
    /\ fn_in.mode = "abs" /\ fn_in.unit = "nm" /\ fn_in.file_index = 1
    /\ fn_in.x = 300 * XScale
    /\ fn_out >= 12750 * YScale
    /\ fn_out < 15000 * YScale

\* C18: in absorption and emission mode every sample of the curve of every
\* source index is >= 0.
C18_SamplesAreNonNegative ==
    (pc = "applied" /\ fn_in.mode \in {"abs", "emi"}) => fn_out >= 0

\* ---------------------------------------------------------------------------
\* Claims on calculateNiceTicks between 2^53 and 2^54, checked under SpecCoarse
\* ---------------------------------------------------------------------------

\* C21: for every axis range with min < max the tick loop of
\* calculateNiceTicks with target count 6 terminates and yields at least 2 and
\* at most 6 ticks: the loop never takes a seventh turn, and the list it
\* returns has between 2 and 6 entries.
C21_TickLoopEndsWithTwoToSixTicks ==
    /\ fn_in.min_off < fn_in.max_off
    /\ pc = "fn" => Len(fn_out.ticks) <= TargetTicks
    /\ pc = "applied" => Len(fn_out.ticks) \in 2..TargetTicks

====
